---- MODULE Spec2Model ----
(***************************************************************************)
(* URL classifier of src/lib/urlValidation.js: validateUrl and             *)
(* isUrlFormatValid, with the platform's URL parser (new URL) they call.   *)
(* A string is a sequence of one-character strings.                        *)
(***************************************************************************)
EXTENDS Integers, Sequences, FiniteSets, TLC

\* ------------------------------------------------------------------------
\* Bounds of the model
\* ------------------------------------------------------------------------

\* number of extra labels put in front of a base domain
MaxSub == 2

\* ------------------------------------------------------------------------
\* Characters
\* ------------------------------------------------------------------------

UpperLetters == <<"A","B","C","D","E","F","G","H","I","J","K","L","M",
                  "N","O","P","Q","R","S","T","U","V","W","X","Y","Z">>

LowerLetters == <<"a","b","c","d","e","f","g","h","i","j","k","l","m",
                  "n","o","p","q","r","s","t","u","v","w","x","y","z">>

DigitChars == <<"0","1","2","3","4","5","6","7","8","9">>

HexChars == <<"0","1","2","3","4","5","6","7","8","9","a","b","c","d","e","f">>

Range(f) == { f[i] : i \in DOMAIN f }

IsLower(c) == c \in Range(LowerLetters)

IsUpper(c) == c \in Range(UpperLetters)

IsDigit(c) == c \in Range(DigitChars)

\* white space removed by String.prototype.trim
IsWhiteSpace(c) == c \in {" ", "\t", "\n", "\r"}

SetMin(S) == CHOOSE x \in S : \A y \in S : x <= y

SetMax(S) == CHOOSE x \in S : \A y \in S : x >= y

\* ------------------------------------------------------------------------
\* String primitives of the language runtime
\* ------------------------------------------------------------------------

Positions(s, chars) == { i \in 1..Len(s) : s[i] \in chars }

\* s between the first and the last position of keep
KeepRange(s, keep) ==
  IF keep = {} THEN <<>> ELSE SubSeq(s, SetMin(keep), SetMax(keep))

trim(s) == KeepRange(s, { i \in 1..Len(s) : ~IsWhiteSpace(s[i]) })

LowerChar(c) ==
  IF IsUpper(c)
    THEN LowerLetters[CHOOSE i \in DOMAIN UpperLetters : UpperLetters[i] = c]
    ELSE c

toLowerCase(s) == [i \in 1..Len(s) |-> LowerChar(s[i])]

startsWith(s, p) == Len(s) >= Len(p) /\ SubSeq(s, 1, Len(p)) = p

endsWith(s, p) == Len(s) >= Len(p) /\ SubSeq(s, Len(s) - Len(p) + 1, Len(s)) = p

includes(s, p) ==
  \E i \in 1..(Len(s) - Len(p) + 1) : SubSeq(s, i, i + Len(p) - 1) = p

\* s.split(sep) for a one-character separator
split(s, sep) ==
  LET at == Positions(s, {sep})
      n == Cardinality(at) + 1
      cut(k) == IF k = 0 THEN 0
                ELSE IF k = n THEN Len(s) + 1
                ELSE CHOOSE i \in at : Cardinality({ j \in at : j < i }) = k - 1
  IN  [k \in 1..n |-> SubSeq(s, cut(k - 1) + 1, cut(k) - 1)]

RECURSIVE join(_, _)
join(parts, sep) ==
  IF Len(parts) = 0 THEN <<>>
  ELSE IF Len(parts) = 1 THEN parts[1]
  ELSE parts[1] \o sep \o join(Tail(parts), sep)

\* parts.slice(from) with a 0-based index
slice(parts, from) == SubSeq(parts, from + 1, Len(parts))

DigitVal(c) == (CHOOSE i \in DOMAIN HexChars : HexChars[i] = c) - 1

\* value of a digit string in the given radix
RECURSIVE ParseNum(_, _)
ParseNum(ds, radix) ==
  IF Len(ds) = 0 THEN 0
  ELSE ParseNum(SubSeq(ds, 1, Len(ds) - 1), radix) * radix + DigitVal(ds[Len(ds)])

\* decimal digits of a natural number
RECURSIVE ToDecimal(_)
ToDecimal(n) ==
  IF n < 10 THEN <<DigitChars[n + 1]>>
  ELSE ToDecimal(n \div 10) \o <<DigitChars[(n % 10) + 1]>>

\* /^[a-z]+$/
tldRegex(s) == Len(s) > 0 /\ \A i \in 1..Len(s) : IsLower(s[i])

\* /^[a-z0-9-]+$/
validDomainRegex(s) ==
  Len(s) > 0 /\ \A i \in 1..Len(s) : IsLower(s[i]) \/ IsDigit(s[i]) \/ s[i] = "-"

DigitRun(s, bad) == IF bad = {} THEN s ELSE SubSeq(s, 1, SetMin(bad) - 1)

NumberOfRun(run) == IF Len(run) = 0 THEN -1 ELSE ParseNum(run, 10)

\* parseInt(s, 10): the leading run of decimal digits, NaN (-1) when there is none
parseInt(s) == NumberOfRun(DigitRun(s, { i \in 1..Len(s) : ~IsDigit(s[i]) }))

\* ------------------------------------------------------------------------
\* The URL parser of the platform (new URL(...)), for http and https.
\* Each step is an operator that takes what the steps before it produced.
\* ------------------------------------------------------------------------

HttpPrefix == <<"h","t","t","p",":","/","/">>

HttpsPrefix == <<"h","t","t","p","s",":","/","/">>

DefaultPort(scheme) ==
  IF scheme = <<"h","t","t","p">> THEN 80
  ELSE IF scheme = <<"h","t","t","p","s">> THEN 443
  ELSE -1

\* code points a host may not contain (those the model's alphabet has)
ForbiddenHostChars == {" ", "#", "/", ":", "<", ">", "?", "@", "[", "\\", "]", "^", "|", "%"}

UrlFailure == [ok |-> FALSE]

\* s before the first position of stop, all of s when there is none
Before(s, stop) == IF stop = {} THEN s ELSE SubSeq(s, 1, SetMin(stop) - 1)

\* s from the first position of keep on
From(s, keep) == IF keep = {} THEN <<>> ELSE SubSeq(s, SetMin(keep), Len(s))

\* s after the first position of at, nothing when there is none
AfterFirst(s, at) == IF at = {} THEN <<>> ELSE SubSeq(s, SetMin(at) + 1, Len(s))

\* s after the last position of at, all of s when there is none
AfterLast(s, at) == IF at = {} THEN s ELSE SubSeq(s, SetMax(at) + 1, Len(s))

\* a digit string in a radix: [ok, value]
NumberIn(ds, radix) ==
  IF \E i \in 1..Len(ds) : ~(ds[i] \in Range(HexChars) /\ DigitVal(ds[i]) < radix)
    THEN [ok |-> FALSE, value |-> 0]
    ELSE [ok |-> TRUE, value |-> ParseNum(ds, radix)]

\* one part of an IPv4 address: 0x.. is hexadecimal, 0.. octal, else decimal
Ipv4Number(p) ==
  IF Len(p) = 0 THEN [ok |-> FALSE, value |-> 0]
  ELSE IF Len(p) >= 2 /\ p[1] = "0" /\ p[2] = "x" THEN NumberIn(SubSeq(p, 3, Len(p)), 16)
  ELSE IF Len(p) >= 2 /\ p[1] = "0" THEN NumberIn(SubSeq(p, 2, Len(p)), 8)
  ELSE NumberIn(p, 10)

DropEmptyLast(parts) ==
  IF Len(parts) > 1 /\ parts[Len(parts)] = <<>>
    THEN SubSeq(parts, 1, Len(parts) - 1) ELSE parts

\* the labels of a host without one trailing empty label
Ipv4Parts(h) == DropEmptyLast(split(h, "."))

IsNumericLabel(l) ==
  /\ Len(l) > 0
  /\ \/ \A i \in 1..Len(l) : IsDigit(l[i])
     \/ Ipv4Number(l).ok

LastOf(parts) == parts[Len(parts)]

EndsInANumber(h) == IsNumericLabel(LastOf(Ipv4Parts(h)))

Pow256(k) == IF k = 0 THEN 1 ELSE IF k = 1 THEN 256 ELSE IF k = 2 THEN 65536 ELSE 16777216

\* the part at position i counts for byte i, the last part for the bytes left
HighPart(nums, i) == IF i < Len(nums) THEN nums[i].value * Pow256(4 - i) ELSE 0

Ipv4Address(nums) ==
  nums[Len(nums)].value + HighPart(nums, 1) + HighPart(nums, 2) + HighPart(nums, 3)

SerializeIpv4(addr) ==
  join([k \in 1..4 |-> ToDecimal((addr \div Pow256(4 - k)) % 256)], <<".">>)

Ipv4OfNumbers(nums) ==
  IF Len(nums) > 4 \/ \E i \in 1..Len(nums) : ~nums[i].ok THEN <<>>
  ELSE IF \E i \in 1..(Len(nums) - 1) : nums[i].value > 255 THEN <<>>
  ELSE IF Len(nums) > 1 /\ nums[Len(nums)].value >= Pow256(5 - Len(nums)) THEN <<>>
  ELSE <<SerializeIpv4(Ipv4Address(nums))>>

Ipv4Numbers(parts) == [i \in 1..Len(parts) |-> Ipv4Number(parts[i])]

\* IPv4 parser and serializer: <<>> on failure, else <<dotted quad>>
ParseIpv4(h) == Ipv4OfNumbers(Ipv4Numbers(Ipv4Parts(h)))

HostOfAscii(ascii) ==
  IF Len(ascii) = 0 \/ Positions(ascii, ForbiddenHostChars) # {} THEN <<>>
  ELSE IF EndsInANumber(ascii) THEN ParseIpv4(ascii)
  ELSE <<ascii>>

\* host parser: <<>> on failure, else <<hostname>>
ParseHost(h) == HostOfAscii(toLowerCase(h))

AfterScheme(s) == AfterFirst(s, Positions(s, {":"}))

SkipSlashes(rest) == From(rest, { i \in 1..Len(rest) : rest[i] \notin {"/", "\\"} })

BeforePath(body) == Before(body, Positions(body, {"/", "?", "#", "\\"}))

\* the text between the scheme's slashes and the path, query or fragment
Authority(s) == BeforePath(SkipSlashes(AfterScheme(s)))

SplitHostPort(hp) ==
  [host |-> Before(hp, Positions(hp, {":"})), port |-> AfterFirst(hp, Positions(hp, {":"}))]

\* host and port text of an authority, after the last "@"
HostPort(auth) == SplitHostPort(AfterLast(auth, Positions(auth, {"@"})))

UrlWithPort(scheme, hostname, noPort, portNum) ==
  IF ~noPort /\ portNum > 65535 THEN UrlFailure
  ELSE [ok |-> TRUE,
        protocol |-> scheme \o <<":">>,
        hostname |-> hostname,
        port |-> IF noPort \/ portNum = DefaultPort(scheme) THEN <<>> ELSE ToDecimal(portNum)]

UrlOfHost(scheme, host, port) ==
  IF host = <<>> THEN UrlFailure
  ELSE IF \E i \in 1..Len(port) : ~IsDigit(port[i]) THEN UrlFailure
  ELSE UrlWithPort(scheme, host[1], Len(port) = 0, ParseNum(port, 10))

UrlOfAuthority(scheme, hp) == UrlOfHost(scheme, ParseHost(hp.host), hp.port)

UrlOfStripped(s) ==
  IF Positions(s, {":"}) = {} THEN UrlFailure
  ELSE UrlOfAuthority(Before(s, Positions(s, {":"})), HostPort(Authority(s)))

\* leading and trailing spaces are stripped, tabs and newlines removed anywhere
StripUrl(u) ==
  SelectSeq(KeepRange(u, { i \in 1..Len(u) : u[i] # " " }),
            LAMBDA c : c \notin {"\t", "\n", "\r"})

\* new URL(u) for u starting with a scheme; [ok |-> FALSE] is the TypeError
ParseURL(u) == UrlOfStripped(StripUrl(u))

\* ------------------------------------------------------------------------
\* validateUrl (src/lib/urlValidation.js)
\* ------------------------------------------------------------------------

\* the two result shapes validateUrl returns
Invalid(text, args) == [isValid |-> FALSE, error |-> [text |-> text, args |-> args]]

\* faulty variant: the success result also carries an error
ValidWithError(url) ==
  [isValid |-> TRUE, normalizedUrl |-> url, error |-> [text |-> "", args |-> <<>>]]

Valid(url) == [isValid |-> TRUE, normalizedUrl |-> url]

\* error messages; ${...} stands for the interpolated value carried in args
ErrEmpty == "URL cannot be empty"
ErrFormat == "Invalid URL format"
ErrNoDomain == "URL must contain a domain"
ErrNoDot == "Domain must contain at least one dot (e.g., domain.com)"
ErrNoTld == "Domain must include a top-level domain (TLD). Example: domain.com, not just \"domain\""
ErrTldEmpty == "Domain extension (TLD) cannot be empty"
ErrTldLetters == "Domain extension (TLD) can only contain letters"
ErrTldShort == "Domain extension (TLD) must be at least 2 characters (e.g., .com, .io)"
ErrTldLong == "\"${tld}\" appears to be a domain name, not a top-level domain (TLD). Please include a valid TLD like .com, .org, .io, etc."
ErrTldNotCommon == "\"${tld}\" appears to be a domain name, not a top-level domain (TLD). Please include a valid TLD like .com, .org, .io, etc. Example: ${hostname}.com"
ErrPartLong == "Domain part \"${part}\" exceeds maximum length of 63 characters"
ErrChars == "Domain contains invalid characters. Only letters, numbers, and hyphens are allowed"
ErrHyphenEdge == "Domain parts cannot start or end with a hyphen"
ErrHyphens == "Domain cannot contain consecutive hyphens"
ErrDomainLong == "Domain exceeds maximum length of 253 characters"
ErrSpaces == "Domain cannot contain spaces"
ErrForbiddenChar == "Domain cannot contain the character \"${char}\""
ErrProtocol == "URL must use http:// or https:// protocol"
ErrPort == "Port number must be between 1 and 65535"
ErrSuspicious == "Suspicious subdomain detected. \"${subdomain}.${mainDomain}\" may be a typo or phishing attempt. Please verify the URL is correct."
ErrTooShort == "Domain name is too short. Please verify the URL is correct."
ErrPartEmpty == "Domain parts cannot be empty"

MinTldLength == 2
MaxTldLength == 10
CommonTldLength == 4
MaxLabelLength == 63
MaxHostnameLength == 253
MinPort == 1
MaxPort == 65535
ShortSubdomainLength == 3

commonLongTlds ==
  { <<"t","e","c","h","n","o","l","o","g","y">>, <<"p","h","o","t","o","g","r","a","p","h","y">>,
    <<"i","n","t","e","r","n","a","t","i","o","n","a","l">>, <<"o","r","g","a","n","i","z","a","t","i","o","n">>,
    <<"f","o","u","n","d","a","t","i","o","n">>, <<"c","o","n","s","t","r","u","c","t","i","o","n">>,
    <<"e","n","g","i","n","e","e","r","i","n","g">>, <<"m","a","n","a","g","e","m","e","n","t">>,
    <<"c","o","n","s","u","l","t","i","n","g">>, <<"e","n","t","e","r","p","r","i","s","e","s">>,
    <<"p","r","o","d","u","c","t","i","o","n","s">>, <<"v","e","n","t","u","r","e","s">>,
    <<"p","a","r","t","n","e","r","s">>, <<"h","o","l","d","i","n","g","s">>,
    <<"s","o","l","u","t","i","o","n","s">>, <<"s","e","r","v","i","c","e","s">>,
    <<"s","y","s","t","e","m","s">>, <<"i","n","d","u","s","t","r","i","e","s">>,
    <<"p","r","o","p","e","r","t","i","e","s">>, <<"d","e","v","e","l","o","p","m","e","n","t","s">>,
    <<"c","o","m","m","u","n","i","c","a","t","i","o","n","s">>, <<"i","n","s","t","i","t","u","t","i","o","n","s">>,
    <<"a","s","s","o","c","i","a","t","i","o","n","s">>, <<"c","o","r","p","o","r","a","t","i","o","n">>,
    <<"u","n","i","v","e","r","s","i","t","y">>, <<"e","d","u","c","a","t","i","o","n">> }

wellKnownDomains ==
  { <<"g","o","o","g","l","e",".","c","o","m">>, <<"g","o","o","g","l","e",".","c","o",".","i","l">>,
    <<"g","o","o","g","l","e",".","c","o",".","u","k">>, <<"g","o","o","g","l","e",".","f","r">>,
    <<"g","o","o","g","l","e",".","d","e">>, <<"f","a","c","e","b","o","o","k",".","c","o","m">>,
    <<"y","o","u","t","u","b","e",".","c","o","m">>, <<"a","m","a","z","o","n",".","c","o","m">>,
    <<"a","m","a","z","o","n",".","c","o",".","u","k">>, <<"m","i","c","r","o","s","o","f","t",".","c","o","m">>,
    <<"a","p","p","l","e",".","c","o","m">>, <<"t","w","i","t","t","e","r",".","c","o","m">>,
    <<"x",".","c","o","m">>, <<"i","n","s","t","a","g","r","a","m",".","c","o","m">>,
    <<"l","i","n","k","e","d","i","n",".","c","o","m">>, <<"g","i","t","h","u","b",".","c","o","m">>,
    <<"n","e","t","f","l","i","x",".","c","o","m">>, <<"p","a","y","p","a","l",".","c","o","m">>,
    <<"e","b","a","y",".","c","o","m">>, <<"w","a","l","m","a","r","t",".","c","o","m">>,
    <<"t","a","r","g","e","t",".","c","o","m">> }

legitimateShortSubdomains ==
  { <<"w","w","w">>, <<"a","p","i">>, <<"c","d","n">>, <<"i","m","g">>,
    <<"j","s">>, <<"c","s","s">>, <<"f","t","p">>, <<"s","m","t","p">>,
    <<"m","a","i","l">>, <<"p","o","p">>, <<"i","m","a","p">>, <<"v","p","n">>,
    <<"s","s","h">>, <<"g","i","t">>, <<"d","e","v">>, <<"s","t","g">>,
    <<"p","r","d">>, <<"u","a","t">>, <<"t","e","s","t">>, <<"q","a">>,
    <<"a","p","p">>, <<"w","e","b">>, <<"m","o","b">>, <<"i","o","s">>,
    <<"w","i","n">>, <<"m","a","c">>, <<"o","l","d">>, <<"n","e","w">>,
    <<"t","m","p">>, <<"b","a","k">>, <<"l","o","g">>, <<"d","b">>,
    <<"s","q","l">>, <<"n","o","d","e">>, <<"p","h","p">>, <<"p","y">>,
    <<"g","o">>, <<"r","b">>, <<"j","a","v","a">>, <<"n","e","t">>,
    <<"a","s","p">>, <<"j","s","p">>, <<"h","t","m","l">>, <<"x","m","l">>,
    <<"j","s","o","n">> }


\* the last entry stands for the grave accent, which a string here cannot hold
forbiddenChars ==
  <<"@", "!", "#", "$", "%", "^", "&", "*", "(", ")", "+", "=", "[", "]", "{", "}",
    "|", "\\", ";", ":", "\"", "'", "<", ">", ",", "?", "~", "grave">>

\* Every gate below yields <<>> when it passes and <<result>> when it returns.

\* steps 5 to 13: the hostname, its dot and its top-level domain
CheckTld(hostname, domainParts) ==
  LET tld == domainParts[Len(domainParts)]
  IN  IF Len(hostname) = 0 THEN <<Invalid(ErrNoDomain, <<>>)>>
      ELSE IF ~includes(hostname, <<".">>) THEN <<Invalid(ErrNoDot, <<>>)>>
      ELSE IF Len(domainParts) < 2 THEN <<Invalid(ErrNoTld, <<>>)>>
      ELSE IF Len(tld) = 0 THEN <<Invalid(ErrTldEmpty, <<>>)>>
      ELSE IF ~tldRegex(tld) THEN <<Invalid(ErrTldLetters, <<>>)>>
      ELSE IF Len(tld) < MinTldLength THEN <<Invalid(ErrTldShort, <<>>)>>
      ELSE IF Len(tld) > MaxTldLength THEN <<Invalid(ErrTldLong, <<tld>>)>>
      ELSE IF /\ Len(domainParts) = 2
              /\ Len(tld) > CommonTldLength
              /\ toLowerCase(tld) \notin commonLongTlds
        THEN <<Invalid(ErrTldNotCommon, <<tld, hostname>>)>>
      ELSE <<>>

\* faulty variant: the check for consecutive hyphens is missing
CheckPartNoDoubleHyphen(part) ==
  IF Len(part) > MaxLabelLength THEN <<Invalid(ErrPartLong, <<part>>)>>
  ELSE IF ~validDomainRegex(part) THEN <<Invalid(ErrChars, <<>>)>>
  ELSE IF startsWith(part, <<"-">>) \/ endsWith(part, <<"-">>)
    THEN <<Invalid(ErrHyphenEdge, <<>>)>>
  ELSE <<>>

\* the body of the loop over the labels
CheckPart(part) ==
  IF Len(part) > MaxLabelLength THEN <<Invalid(ErrPartLong, <<part>>)>>
  ELSE IF ~validDomainRegex(part) THEN <<Invalid(ErrChars, <<>>)>>
  ELSE IF startsWith(part, <<"-">>) \/ endsWith(part, <<"-">>)
    THEN <<Invalid(ErrHyphenEdge, <<>>)>>
  ELSE IF includes(part, <<"-", "-">>) THEN <<Invalid(ErrHyphens, <<>>)>>
  ELSE <<>>

\* the result of each label's checks, in the order of the labels
PartResults(domainParts) == [i \in 1..Len(domainParts) |-> CheckPart(domainParts[i])]

FirstReturn(results, failing) ==
  IF failing = {} THEN <<>> ELSE results[SetMin(failing)]

FirstFailing(results) ==
  FirstReturn(results, { i \in 1..Len(results) : results[i] # <<>> })

\* the loop over the labels: the first label that fails returns
CheckParts(domainParts) == FirstFailing(PartResults(domainParts))

FirstForbidden(found) ==
  IF found = {} THEN <<>>
  ELSE <<Invalid(ErrForbiddenChar, << <<forbiddenChars[SetMin(found)]>> >>)>>

\* steps 12 to 14 on the whole hostname
CheckHostname(hostname) ==
  IF Len(hostname) > MaxHostnameLength THEN <<Invalid(ErrDomainLong, <<>>)>>
  ELSE IF includes(hostname, <<" ">>) THEN <<Invalid(ErrSpaces, <<>>)>>
  ELSE FirstForbidden({ i \in 1..Len(forbiddenChars) :
                          includes(hostname, <<forbiddenChars[i]>>) })

\* step 15
CheckProtocol(hasProtocol, protocol) ==
  IF /\ hasProtocol
     /\ protocol # <<"h","t","t","p",":">>
     /\ protocol # <<"h","t","t","p","s",":">>
    THEN <<Invalid(ErrProtocol, <<>>)>>
    ELSE <<>>

PortInRange(portNum) == ~(portNum = -1 \/ portNum < MinPort \/ portNum > MaxPort)

\* step 16; an empty port string is falsy
CheckPort(port) ==
  IF Len(port) > 0 /\ ~PortInRange(parseInt(port))
    THEN <<Invalid(ErrPort, <<>>)>>
    ELSE <<>>

\* faulty variant: the allowlist of short subdomains is not consulted
SuspiciousNoAllowlist(subdomain, mainDomain) ==
  IF /\ mainDomain \in wellKnownDomains
     /\ Len(subdomain) > 0 /\ Len(subdomain) <= ShortSubdomainLength
    THEN <<Invalid(ErrSuspicious, <<subdomain, mainDomain>>)>>
    ELSE <<>>

\* a short unknown subdomain on a well-known domain
Suspicious(subdomain, mainDomain) ==
  IF /\ mainDomain \in wellKnownDomains
     /\ Len(subdomain) > 0 /\ Len(subdomain) <= ShortSubdomainLength
     /\ toLowerCase(subdomain) \notin legitimateShortSubdomains
    THEN <<Invalid(ErrSuspicious, <<subdomain, mainDomain>>)>>
    ELSE <<>>

\* step 18, first half
CheckSubdomain(domainParts) ==
  IF Len(domainParts) >= 2
    THEN Suspicious(domainParts[1], join(slice(domainParts, 1), <<".">>))
    ELSE <<>>

\* step 18, second half: a one-character domain name
CheckDomainName(domainParts) ==
  IF Len(domainParts) >= 2 /\ Len(domainParts) = 2 /\ Len(domainParts[1]) <= 1
    THEN <<Invalid(ErrTooShort, <<>>)>>
    ELSE <<>>

\* step 20: no label before the last is empty
CheckEmptyParts(domainParts) ==
  IF \E i \in 1..(Len(domainParts) - 1) : Len(domainParts[i]) = 0
    THEN <<Invalid(ErrPartEmpty, <<>>)>>
    ELSE <<>>

\* steps 1 and 2
Lowercased(urlString) == toLowerCase(trim(urlString))

\* step 3
HasProtocol(lowercased) ==
  startsWith(lowercased, HttpPrefix) \/ startsWith(lowercased, HttpsPrefix)

UrlToValidate(hasProtocol, lowercased) ==
  IF hasProtocol THEN lowercased ELSE HttpsPrefix \o lowercased

\* faulty variant: https:// is put in front of every input
NormalizedUrlAlwaysPrefixed(hasProtocol, lowercased) == HttpsPrefix \o lowercased

\* faulty variant: no scheme is put in front of a bare domain
NormalizedUrlNoPrefix(hasProtocol, lowercased) == lowercased

\* step 21
NormalizedUrl(hasProtocol, lowercased) ==
  IF hasProtocol THEN lowercased ELSE HttpsPrefix \o lowercased

\* a gate that returned ends the function, else the next gate runs
OrElse(gate, next) == IF gate # <<>> THEN gate ELSE next

\* the gates on a parsed URL up to the port check, in the order of the code
GatesToPort(hasProtocol, urlObj, domainParts) ==
  OrElse(CheckTld(urlObj.hostname, domainParts),
  OrElse(CheckParts(domainParts),
  OrElse(CheckHostname(urlObj.hostname),
  OrElse(CheckProtocol(hasProtocol, urlObj.protocol),
         CheckPort(urlObj.port)))))

\* the gates after the port check
GatesAfterPort(domainParts) ==
  OrElse(CheckSubdomain(domainParts),
  OrElse(CheckDomainName(domainParts),
         CheckEmptyParts(domainParts)))

\* the return of the gate that failed, or the success result
Outcome(gate, hasProtocol, lowercased) ==
  IF gate # <<>> THEN gate[1] ELSE Valid(NormalizedUrl(hasProtocol, lowercased))

\* steps 5 to 21, on the parsed URL and its labels
ValidateHost(hasProtocol, lowercased, urlObj, domainParts) ==
  Outcome(OrElse(GatesToPort(hasProtocol, urlObj, domainParts), GatesAfterPort(domainParts)),
          hasProtocol, lowercased)

\* step 4: the parse or its TypeError
ValidateParsed(hasProtocol, lowercased, urlObj) ==
  IF ~urlObj.ok THEN Invalid(ErrFormat, <<>>)
  ELSE ValidateHost(hasProtocol, lowercased, urlObj, split(urlObj.hostname, "."))

\* step 3: the string handed to the parser
ValidateLowercased(hasProtocol, lowercased) ==
  ValidateParsed(hasProtocol, lowercased, ParseURL(UrlToValidate(hasProtocol, lowercased)))

\* steps 1 and 2
ValidateTrimmed(trimmed) ==
  IF Len(trimmed) = 0 THEN Invalid(ErrEmpty, <<>>)
  ELSE ValidateLowercased(HasProtocol(toLowerCase(trimmed)), toLowerCase(trimmed))

validateUrl(urlString) == ValidateTrimmed(trim(urlString))

\* ------------------------------------------------------------------------
\* isUrlFormatValid (src/lib/urlValidation.js)
\* ------------------------------------------------------------------------

MinFormatLength == 4

invalidChars == <<" ", "@", "!", "#", "$">>

HasInvalidChar(trimmed) ==
  \E i \in 1..Len(invalidChars) : includes(trimmed, <<invalidChars[i]>>)

\* faulty variant: four characters are already too short
FormatOfOffByOne(trimmed) ==
  IF Len(trimmed) <= MinFormatLength THEN FALSE
  ELSE IF ~includes(trimmed, <<".">>) THEN FALSE
  ELSE IF HasInvalidChar(trimmed) THEN FALSE
  ELSE TRUE

\* the checks on the trimmed, lower-cased string
FormatOf(trimmed) ==
  IF Len(trimmed) < MinFormatLength THEN FALSE
  ELSE IF ~includes(trimmed, <<".">>) THEN FALSE
  ELSE IF HasInvalidChar(trimmed) THEN FALSE
  ELSE TRUE

isUrlFormatValid(urlString) ==
  IF Len(urlString) = 0 \/ Len(trim(urlString)) = 0 THEN FALSE
  ELSE FormatOf(toLowerCase(trim(urlString)))

\* ------------------------------------------------------------------------
\* Inputs: what a user may type
\* ------------------------------------------------------------------------

Rep(c, n) == [i \in 1..n |-> c]

\* labels of the longest legal length and one more
LongLabel == Rep("a", MaxLabelLength)

TooLongLabel == Rep("a", MaxLabelLength + 1)

\* labels put in front of a base domain
PlainSubLabels ==
  { <<"a","b">>, <<"w","w","w">>, <<"a">>, <<>> }

SubLabels == PlainSubLabels \cup {LongLabel}

\* base domains, well formed or not
PlainBaseDomains ==
  { <<>>, <<"a">>, <<"c","o">>,
    <<"c","o","m">>, <<"e","x","a","m","p","l","e",".","c","o","m">>, <<"g","o","o","g","l","e",".","c","o","m">>,
    <<"x",".","c","o","m">>, <<"g","o","o","g","l","e",".","c","o",".","u","k">>, <<"m","a","i","l",".","g","o","o","g","l","e",".","c","o","m">>,
    <<"t","e","c","h","n","o","l","o","g","y">>, <<"p","h","o","t","o","g","r","a","p","h","y">>, <<"p","a","r","t","n","e","r","s">>,
    <<"s","a","a","s","a","i","p","a","r","t","n","e","r","s">>, <<"e","x","a","m","p","l","e">>, <<"c","0","m">>,
    <<"1",".","1">>, <<"E","x","a","m","p","l","e",".","C","O","M">>, <<"-","a",".","c","o","m">>,
    <<"a","-",".","c","o","m">>, <<"a","-","b",".","c","o","m">>, <<"a","-","-","b",".","c","o","m">>,
    <<"a","_","b",".","c","o","m">>, <<"a","!","b",".","i","o">>, <<"a"," ","b",".","c","o","m">>,
    <<"e","x","a","m","\t","p","l","e",".","c","o","m">> }

\* a hyphen violation together with an invalid TLD, or with an invalid character
MixedBaseDomains ==
  { <<"a","-","-","b",".","p","h","o","t","o","g","r","a","p","h","y">>, <<"-","a","_","b",".","c","o","m">> }

BaseDomains ==
  PlainBaseDomains \cup MixedBaseDomains \cup
    { TooLongLabel \o <<".","c","o","m">>,
      LongLabel \o <<".">> \o LongLabel \o <<".","c","o","m">> }

\* the hosts with at most n labels in front of a base domain
RECURSIVE Hosts(_)
Hosts(n) ==
  IF n = 0 THEN BaseDomains
  ELSE Hosts(n - 1) \cup { l \o <<".">> \o h : l \in SubLabels, h \in Hosts(n - 1) }

\* hosts that are typed with a scheme, credentials, a port and a path
CoreHosts ==
  { <<"e","x","a","m","p","l","e",".","c","o","m">>, <<"a","b",".","g","o","o","g","l","e",".","c","o","m">>, <<"a","b",".","p","h","o","t","o","g","r","a","p","h","y">> }

Pads ==
  { <<>>, <<" ">> }

Schemes ==
  { <<>>, <<"h","t","t","p",":","/","/">>, <<"H","T","T","P","S",":","/","/">>,
    <<"h","t","t","p","s",":","/","/","/">>, <<"f","t","p",":","/","/">>, <<"j","a","v","a","s","c","r","i","p","t",":">> }

UserInfos ==
  { <<>>, <<"u","@">> }

Ports ==
  { <<>>, <<":","0">>, <<":","8","0">>, <<":","4","4","3">>,
    <<":","8","0","8","0">>, <<":","6","5","5","3","5">>, <<":","9","9","9","9","9">>, <<":","8","a">> }

Tails ==
  { <<>>, <<"/">>, <<"/","a"," ","b">>,
    <<"#","!">>, <<"?","q","=","$">>, <<"/","@","x">> }


DecoratedInputs ==
  { pad \o sch \o usr \o h \o prt \o tl \o pad :
      pad \in Pads, sch \in Schemes, usr \in UserInfos,
      h \in CoreHosts, prt \in Ports, tl \in Tails }

Inputs == Hosts(MaxSub) \cup DecoratedInputs

\* ------------------------------------------------------------------------
\* The page: typing gives the quick check, submitting validates, and the
\* normalized URL that is passed on may be validated again
\* ------------------------------------------------------------------------

VARIABLES input, pc, quick, result, again

vars == <<input, pc, quick, result, again>>

Init ==
  /\ input \in Inputs
  /\ pc = "typed"
  /\ quick = <<>>
  /\ result = <<>>
  /\ again = <<>>

CheckFormat ==
  /\ pc = "typed"
  /\ quick' = <<isUrlFormatValid(input)>>
  /\ pc' = "checked"
  /\ UNCHANGED <<input, result, again>>

Submit ==
  /\ pc = "checked"
  /\ result' = <<validateUrl(input)>>
  /\ pc' = "validated"
  /\ UNCHANGED <<input, quick, again>>

Resubmit ==
  /\ pc = "validated"
  /\ result[1].isValid
  /\ again' = <<validateUrl(result[1].normalizedUrl)>>
  /\ pc' = "revalidated"
  /\ UNCHANGED <<input, quick, result>>

Next == CheckFormat \/ Submit \/ Resubmit

Spec == Init /\ [][Next]_vars

\* ------------------------------------------------------------------------
\* Properties
\* ------------------------------------------------------------------------

Validated == pc \in {"validated", "revalidated"}

Accepted == Validated /\ result[1].isValid

RejectedWith(text) == Validated /\ ~result[1].isValid /\ result[1].error.text = text

\* the URL object validateUrl builds for the current input
UrlObj == ParseURL(UrlToValidate(HasProtocol(Lowercased(input)), Lowercased(input)))

\* the host and port text as typed, before the URL parser judges them
TypedHostPort ==
  HostPort(Authority(UrlToValidate(HasProtocol(Lowercased(input)), Lowercased(input))))

Chars(s) == { s[i] : i \in 1..Len(s) }

\* the rules for one label: [a-z0-9-]+, at most 63 characters, no hyphen at an end
LabelRules(l) ==
  /\ Len(l) >= 1 /\ Len(l) <= 63
  /\ \A i \in 1..Len(l) : IsLower(l[i]) \/ IsDigit(l[i]) \/ l[i] = "-"
  /\ l[1] # "-" /\ l[Len(l)] # "-"

\* C1: whenever validateUrl accepts an input, isUrlFormatValid accepts it too,
\* also when the path, query, fragment or userinfo holds a space, @, !, # or $.
C1_MonotonicLooseness == Accepted => quick[1]

\* C2: validating a normalized URL again succeeds and yields the same normalized URL.
C2_NormalizationIdempotent ==
  pc = "revalidated" =>
    /\ again[1].isValid
    /\ again[1].normalizedUrl = result[1].normalizedUrl

\* an accepted input that normalization changed has been validated again
C2_Witness ==
  /\ pc = "revalidated"
  /\ result[1].normalizedUrl # input
  /\ again[1].isValid

HasOtherScheme(s) ==
  \/ startsWith(Lowercased(s), <<"f","t","p",":","/","/">>)
  \/ startsWith(Lowercased(s), <<"j","a","v","a","s","c","r","i","p","t",":">>)

\* C3: an input with an explicit scheme other than http or https is rejected
\* with the wrong-scheme message and no other.
C3_WrongSchemeReason ==
  (Validated /\ HasOtherScheme(input)) => RejectedWith(ErrProtocol)

\* the input's host text passes every gate before the port check
HostPassesGates ==
  LET host == ParseHost(TypedHostPort.host)
  IN  /\ host # <<>>
      /\ CheckTld(host[1], split(host[1], ".")) = <<>>
      /\ CheckParts(split(host[1], ".")) = <<>>
      /\ CheckHostname(host[1]) = <<>>

\* C4: when the host passes the earlier gates and the authority carries a port,
\* validateUrl succeeds only if the port is an integer in [1, 65535], and a port
\* outside that range makes it fail with the invalid-port message.
C4_PortCheck ==
  LET port == TypedHostPort.port
      isInteger == \A i \in 1..Len(port) : IsDigit(port[i])
  IN  ( /\ Validated
        /\ Len(trim(input)) > 0
        /\ Len(port) > 0
        /\ HostPassesGates )
      => /\ Accepted => (isInteger /\ ParseNum(port, 10) \in 1..65535)
         /\ (isInteger /\ ParseNum(port, 10) \notin 1..65535) => RejectedWith(ErrPort)

PassesGatesBeforeHeuristic ==
  /\ Len(trim(input)) > 0
  /\ UrlObj.ok
  /\ GatesToPort(HasProtocol(Lowercased(input)), UrlObj, split(UrlObj.hostname, ".")) = <<>>

\* C5: for an input that passes every gate before the heuristic, validateUrl
\* fails with the suspicious-subdomain message exactly when the labels after the
\* first form a well-known domain and the first label has 1 to 3 characters and
\* is not an allowed short subdomain; ab.google.com fails, www.google.com passes.
C5_TyposquatHeuristic ==
  /\ (Validated /\ PassesGatesBeforeHeuristic) =>
       LET labels == split(UrlObj.hostname, ".")
           subdomain == Head(labels)
           mainDomain == join(Tail(labels), <<".">>)
       IN  RejectedWith(ErrSuspicious) <=>
             /\ mainDomain \in wellKnownDomains
             /\ Len(subdomain) \in 1..3
             /\ subdomain \notin legitimateShortSubdomains
  /\ (Validated /\ input = <<"a","b",".","g","o","o","g","l","e",".","c","o","m">>) => RejectedWith(ErrSuspicious)
  /\ (Validated /\ input = <<"w","w","w",".","g","o","o","g","l","e",".","c","o","m">>) => Accepted

\* a short unknown subdomain of a well-known domain has been rejected
C5_Witness ==
  /\ Validated
  /\ PassesGatesBeforeHeuristic
  /\ RejectedWith(ErrSuspicious)

\* C6: an accepted input's normalizedUrl is lower(trim(s)) when that starts with
\* http:// or https://, and https:// followed by lower(trim(s)) otherwise; it
\* starts with http:// or https:// and holds no upper-case letter.
C6_NormalizationForm ==
  /\ Accepted =>
       LET lt == toLowerCase(trim(input))
           n == result[1].normalizedUrl
       IN  /\ n = IF startsWith(lt, HttpPrefix) \/ startsWith(lt, HttpsPrefix)
                    THEN lt ELSE HttpsPrefix \o lt
           /\ startsWith(n, HttpPrefix) \/ startsWith(n, HttpsPrefix)
           /\ \A i \in 1..Len(n) : ~IsUpper(n[i])
  /\ (Validated /\ input = <<"e","x","a","m","p","l","e",".","c","o","m">>) =>
       (Accepted /\ result[1].normalizedUrl = HttpsPrefix \o <<"e","x","a","m","p","l","e",".","c","o","m">>)

\* an input with upper-case letters and no scheme has been accepted
C6_Witness ==
  /\ Accepted
  /\ \E i \in 1..Len(input) : IsUpper(input[i])
  /\ ~HasProtocol(Lowercased(input))

ExactlyOnePayload(r) ==
  \/ /\ r.isValid = TRUE
     /\ DOMAIN r = {"isValid", "normalizedUrl"}
  \/ /\ r.isValid = FALSE
     /\ DOMAIN r = {"isValid", "error"}
     /\ r.error.text # ""

\* C7: a result is either valid with a normalizedUrl and no error, or invalid
\* with a non-empty error and no normalizedUrl; never both and never neither.
C7_ResultExclusive ==
  \A r \in Chars(result) \cup Chars(again) : ExactlyOnePayload(r)

\* an input has been rejected with a reason
C7_Witness == Validated /\ ~result[1].isValid /\ "error" \in DOMAIN result[1]

WellFormedHostname(h) ==
  LET labels == split(h, ".")
      tld == labels[Len(labels)]
  IN  /\ Len(labels) >= 2
      /\ \A k \in 1..Len(labels) : LabelRules(labels[k])
      /\ ~\E i \in 1..(Len(h) - 1) : h[i] = "-" /\ h[i + 1] = "-"
      /\ Len(h) <= 253
      /\ \A i \in 1..Len(tld) : IsLower(tld[i])
      /\ Len(tld) >= 2 /\ Len(tld) <= 10
      /\ (Len(labels) = 2 /\ Len(tld) > 4) => tld \in commonLongTlds

\* C8: the hostname of an accepted input has at least two labels, each non-empty,
\* at most 63 characters, over [a-z0-9-] and without a hyphen at either end; it
\* holds no "--", is at most 253 characters, and its last label is 2 to 10
\* letters, from the long-TLD allowlist when there are two labels and it is
\* longer than 4.
C8_AcceptedHostnameWellFormed == Accepted => WellFormedHostname(UrlObj.hostname)

\* a two-label hostname with an allowlisted long TLD has been accepted
C8_Witness ==
  /\ Accepted
  /\ LET labels == split(UrlObj.hostname, ".")
     IN  Len(labels) = 2 /\ Len(labels[2]) > 4

\* C9: name.T is accepted for every T of the long-TLD allowlist and every label
\* name of at least 2 characters that satisfies the label rules.
C9_LongTldAccepted ==
  LET labels == split(input, ".")
  IN  ( /\ Validated
        /\ Len(labels) = 2
        /\ labels[2] \in commonLongTlds
        /\ Len(labels[1]) >= 2
        /\ LabelRules(labels[1])
        /\ ~includes(labels[1], <<"-", "-">>) )
      => Accepted

\* C10: isUrlFormatValid(s) holds exactly when lower(trim(s)) has at least 4
\* characters, holds a dot and holds no space, @, !, # or $; it is false for
\* "a" and true for "a.co".
C10_QuickFormat ==
  /\ pc # "typed" =>
       LET t == toLowerCase(trim(input))
       IN  quick[1] <=>
             /\ Len(t) > 0
             /\ Len(t) >= 4
             /\ "." \in Chars(t)
             /\ Chars(t) \cap {" ", "@", "!", "#", "$"} = {}
  /\ (pc # "typed" /\ input = <<"a">>) => ~quick[1]
  /\ (pc # "typed" /\ input = <<"a",".","c","o">>) => quick[1]

\* the shortest accepted format, four characters with a dot, has been checked
C10_Witness == pc # "typed" /\ input = <<"a",".","c","o">> /\ quick[1]

\* the gates as the pipeline lists them, each on the parsed hostname
HyphenViolated(h) ==
  \/ \E i \in 1..(Len(h) - 1) : h[i] = "-" /\ h[i + 1] = "-"
  \/ \E k \in 1..Len(split(h, ".")) :
       LET l == split(h, ".")[k] IN Len(l) > 0 /\ (l[1] = "-" \/ l[Len(l)] = "-")

CharsetViolated(h) ==
  \E k \in 1..Len(split(h, ".")) :
    LET l == split(h, ".")[k]
    IN  \E i \in 1..Len(l) : ~(IsLower(l[i]) \/ IsDigit(l[i]) \/ l[i] = "-")

LabelLengthViolated(h) == \E k \in 1..Len(split(h, ".")) : Len(split(h, ".")[k]) > 63

HostnameLengthViolated(h) == Len(h) > 253

TldViolated(h) ==
  LET labels == split(h, ".")
      tld == labels[Len(labels)]
  IN  ~ /\ Len(labels) >= 2
        /\ Len(tld) >= 2 /\ Len(tld) <= 10
        /\ \A i \in 1..Len(tld) : IsLower(tld[i])
        /\ (Len(labels) = 2 /\ Len(tld) > 4) => tld \in commonLongTlds

\* an empty label is none of the listed gates; C11 is stated on hostnames without one
NoEmptyLabel(h) == \A k \in 1..Len(split(h, ".")) : Len(split(h, ".")[k]) > 0

HyphenReasons == {ErrHyphenEdge, ErrHyphens}

TldReasons ==
  {ErrNoDot, ErrNoTld, ErrTldEmpty, ErrTldLetters, ErrTldShort, ErrTldLong, ErrTldNotCommon}

RejectedIn(reasons) == Validated /\ ~result[1].isValid /\ result[1].error.text \in reasons

\* C11: when several gates are violated the reason is that of the earliest in the
\* order hyphen placement, label character set, label length, hostname length,
\* TLD check; a hostname with "--" or a label starting or ending with a hyphen
\* always gets a malformed-hyphenation reason, also when its TLD is invalid too.
C11_FirstFailingGate ==
  (Validated /\ Len(trim(input)) > 0 /\ UrlObj.ok /\ NoEmptyLabel(UrlObj.hostname)) =>
    LET h == UrlObj.hostname
    IN  /\ HyphenViolated(h) => RejectedIn(HyphenReasons)
        /\ (~HyphenViolated(h) /\ CharsetViolated(h)) => RejectedIn({ErrChars})
        /\ (~HyphenViolated(h) /\ ~CharsetViolated(h) /\ LabelLengthViolated(h))
             => RejectedIn({ErrPartLong})
        /\ ( /\ ~HyphenViolated(h) /\ ~CharsetViolated(h) /\ ~LabelLengthViolated(h)
             /\ HostnameLengthViolated(h) ) => RejectedIn({ErrDomainLong})
        /\ ( /\ ~HyphenViolated(h) /\ ~CharsetViolated(h) /\ ~LabelLengthViolated(h)
             /\ ~HostnameLengthViolated(h) /\ TldViolated(h) ) => RejectedIn(TldReasons)

====
